---- MODULE Spec2Model ----
(***************************************************************************)
(* A model of earthquakes.py: the script's main routine (lines 194-260)    *)
(* and the functions it calls (str2datetime, quake_feature_stats,          *)
(* plot_quake_counts, plot_mag_vs_depth, map_quakes).                      *)
(*                                                                         *)
(* Numbers.  depth and mag are floats.  A float is held as an integer      *)
(* count of quanta, Scale quanta to the unit (km, magnitude unit), and the *)
(* arithmetic of numpy on them is binary floating point: every result is   *)
(* rounded to the nearest value with Precision significant bits, ties to   *)
(* even (IEEE 754 has 53 bits; the model keeps fewer).                     *)
(*                                                                         *)
(* Dates.  A date is <<year, month, day>>, a datetime a date and an hour;  *)
(* the minutes, seconds and microseconds of a time string play no part in  *)
(* the script beyond ordering within a day and are left out.               *)
(*                                                                         *)
(* Exceptions.  A function that may raise returns Raised(e) or             *)
(* Returned(v); an uncaught exception ends the script (pc = "error").      *)
(* An unset script variable is <<>>, a set one <<v>>.                      *)
(***************************************************************************)
EXTENDS Integers, Sequences, FiniteSets, TLC

VARIABLES pc, eq, date_min, date_max, stats_depth, stats_mag, greatest,
          quakes, hlines, scatter, markers, error

vars == <<pc, eq, date_min, date_max, stats_depth, stats_mag, greatest,
          quakes, hlines, scatter, markers, error>>

---------------------------------------------------------------------------
(* Bounds of the model *)

\* longest batch (number of rows of the CSV file)
MaxLen == 3

\* significant bits of a float
Precision == 10

\* quanta per unit: floats are multiples of 1/Scale
Scale == 2^3

---------------------------------------------------------------------------
(* Results and exceptions *)

Returned(v) == [exc |-> "", val |-> <<v>>]

Raised(e) == [exc |-> e, val |-> <<>>]

\* float('nan'), what numpy and pandas give for a reduction of no values
NaN == "nan"

---------------------------------------------------------------------------
(* datetime: the calendar of datetime.date *)

IsLeap(y) == (y % 4 = 0) /\ ((y % 100 # 0) \/ (y % 400 = 0))

DaysInMonth(y, m) ==
  IF m = 2 THEN (IF IsLeap(y) THEN 29 ELSE 28)
  ELSE IF m \in {4, 6, 9, 11} THEN 30 ELSE 31

RECURSIVE DaysBeforeMonth(_, _)
DaysBeforeMonth(y, m) ==
  IF m <= 1 THEN 0 ELSE DaysBeforeMonth(y, m - 1) + DaysInMonth(y, m - 1)

DaysBeforeYear(y) ==
  (y - 1) * 365 + ((y - 1) \div 4) - ((y - 1) \div 100) + ((y - 1) \div 400)

\* date.toordinal(): days since 0001-01-01, that day being 1
toordinal(d) == DaysBeforeYear(d[1]) + DaysBeforeMonth(d[1], d[2]) + d[3]

\* what strptime accepts as a year, month and day
ValidDate(d) ==
  /\ d[1] \in 1..9999
  /\ d[2] \in 1..12
  /\ d[3] \in 1..DaysInMonth(d[1], d[2])

\* the day after, were every month 30 days long
NextDayThirty(d) ==
  IF d[3] < 30 THEN <<d[1], d[2], d[3] + 1>>
  ELSE IF d[2] < 12 THEN <<d[1], d[2] + 1, 1>>
  ELSE <<d[1] + 1, 1, 1>>

\* date + timedelta(days=1)
NextDay(d) ==
  IF d[3] < DaysInMonth(d[1], d[2]) THEN <<d[1], d[2], d[3] + 1>>
  ELSE IF d[2] < 12 THEN <<d[1], d[2] + 1, 1>>
  ELSE <<d[1] + 1, 1, 1>>

\* date < date: the loop test with the last day left out
DateLT(a, b) ==
  \/ a[1] < b[1]
  \/ a[1] = b[1] /\ a[2] < b[2]
  \/ a[1] = b[1] /\ a[2] = b[2] /\ a[3] < b[3]

\* date <= date
DateLE(a, b) ==
  \/ a[1] < b[1]
  \/ a[1] = b[1] /\ a[2] < b[2]
  \/ a[1] = b[1] /\ a[2] = b[2] /\ a[3] <= b[3]

\* datetime <= datetime
DatetimeLE(a, b) ==
  \/ a.date # b.date /\ DateLE(a.date, b.date)
  \/ a.date = b.date /\ a.hour <= b.hour

---------------------------------------------------------------------------
(* str2datetime *)

\* A time string "YYYY-MM-DDTHH:00:00.000000Z": its date fields, its hour
\* and its last character.
TimeString(y, m, d, hh, z) == [ymd |-> <<y, m, d>>, hh |-> hh, z |-> z]

\* a parser that takes the fields as they come and never raises
str2datetime_lenient(timestr) ==
  Returned([date |-> timestr.ymd, hour |-> timestr.hh])

str2datetime(timestr) ==
  IF timestr.z = "Z" /\ ValidDate(timestr.ymd) /\ timestr.hh \in 0..23
  THEN Returned([date |-> timestr.ymd, hour |-> timestr.hh])
  ELSE Raised("ValueError")

\* [str2datetime(tm) for tm in column]: the first exception ends it
RECURSIVE ParseAll(_)
ParseAll(column) ==
  IF column = <<>> THEN Returned(<<>>)
  ELSE LET head == str2datetime(Head(column))
           rest == ParseAll(Tail(column))
       IN  IF head.exc # "" THEN head
           ELSE IF rest.exc # "" THEN rest
           ELSE Returned(<<head.val[1]>> \o rest.val[1])

---------------------------------------------------------------------------
(* Floating point: the arithmetic of numpy on float64 values *)

Abs(x) == IF x < 0 THEN -x ELSE x

\* how many low bits a magnitude of q quanta loses to keep Precision bits
RECURSIVE LostBits(_, _)
LostBits(q, e) == IF q < 2^(Precision + e) THEN e ELSE LostBits(q, e + 1)

\* n/d quanta (d > 0) rounded to the nearest float, ties to even
RoundRat(n, d) ==
  LET a    == Abs(n)
      ulp  == 2^LostBits(a \div d, 0)
      step == d * ulp
      k    == a \div step
      r    == a - k * step
      up   == (2 * r > step) \/ (2 * r = step /\ k % 2 = 1)
      m    == IF up THEN k + 1 ELSE k
  IN  IF n < 0 THEN -(m * ulp) ELSE m * ulp

fl_add(a, b) == RoundRat(a + b, 1)

fl_sub(a, b) == RoundRat(a - b, 1)

fl_mul(a, b) == RoundRat(a * b, Scale)

\* a float divided by a count
fl_div(a, n) == RoundRat(a, n)

\* the largest r in lo..hi with r * r <= t
RECURSIVE ISqrt(_, _, _)
ISqrt(t, lo, hi) ==
  IF lo >= hi THEN lo
  ELSE LET mid == (lo + hi + 1) \div 2
       IN  IF mid * mid <= t THEN ISqrt(t, mid, hi) ELSE ISqrt(t, lo, mid - 1)

\* np.sqrt of v >= 0, rounded to the nearest float
fl_sqrt(v) ==
  LET t   == v * Scale
      r0  == ISqrt(t, 0, 2^15)
      ulp == 2^LostBits(r0, 0)
      lo  == (r0 \div ulp) * ulp
      mid == 2 * lo + ulp
  IN  IF 4 * t < mid * mid THEN lo
      ELSE IF 4 * t > mid * mid THEN lo + ulp
      ELSE IF (lo \div ulp) % 2 = 0 THEN lo ELSE lo + ulp

---------------------------------------------------------------------------
(* quake_feature_stats *)

\* quakes[feature]: one column of the frame
Column(frame, feature) == [i \in 1..Len(frame) |-> frame[i][feature]]

RECURSIVE np_min(_)
np_min(values) ==
  IF Len(values) = 1 THEN values[1]
  ELSE LET rest == np_min(Tail(values))
       IN  IF values[1] <= rest THEN values[1] ELSE rest

RECURSIVE np_max(_)
np_max(values) ==
  IF Len(values) = 1 THEN values[1]
  ELSE LET rest == np_max(Tail(values))
       IN  IF values[1] >= rest THEN values[1] ELSE rest

\* the values added up left to right, each partial sum rounded
RECURSIVE fl_sum(_, _)
fl_sum(values, acc) ==
  IF values = <<>> THEN acc
  ELSE fl_sum(Tail(values), fl_add(acc, Head(values)))

np_mean(values) == fl_div(fl_sum(values, 0), Len(values))

\* abs(x - mean)**2 of every value
SquaredDeviations(values, mean) ==
  [i \in 1..Len(values) |->
     LET dev == fl_sub(values[i], mean) IN fl_mul(dev, dev)]

\* the divisor of the sample variance (ddof=1), kept from 0
StdDivisorSample(n) == IF n > 1 THEN n - 1 ELSE 1

\* the divisor of the variance: np.std passes ddof=0 on to the Series
StdDivisor(n) == n

np_std(values) ==
  LET mean == np_mean(values)
      ssq  == fl_sum(SquaredDeviations(values, mean), 0)
  IN  fl_sqrt(fl_div(ssq, StdDivisor(Len(values))))

\* On a column of no values every reduction gives nan, and raises nothing.
quake_feature_stats(frame, feature) ==
  LET values == Column(frame, feature)
  IN  IF Len(values) = 0
      THEN [min |-> NaN, max |-> NaN, mean |-> NaN, std |-> NaN]
      ELSE [min  |-> np_min(values),
            max  |-> np_max(values),
            mean |-> np_mean(values),
            std  |-> np_std(values)]

---------------------------------------------------------------------------
(* The main routine's queries on the frame *)

\* np.min of a non-empty list of datetimes
RECURSIVE MinDatetime(_)
MinDatetime(list) ==
  IF Len(list) = 1 THEN list[1]
  ELSE LET rest == MinDatetime(Tail(list))
       IN  IF DatetimeLE(list[1], rest) THEN list[1] ELSE rest

\* np.max of a non-empty list of datetimes
RECURSIVE MaxDatetime(_)
MaxDatetime(list) ==
  IF Len(list) = 1 THEN list[1]
  ELSE LET rest == MaxDatetime(Tail(list))
       IN  IF DatetimeLE(rest, list[1]) THEN list[1] ELSE rest

\* a scan that lets an equal value take the place too: the last largest
ExceedsOrEquals(value, best) == value >= best

\* whether a value takes the place of the largest seen so far
Exceeds(value, best) == value > best

\* the scan for the largest value: best is the position of the largest
\* among the first i - 1
RECURSIVE ArgmaxScan(_, _, _)
ArgmaxScan(values, i, best) ==
  IF i > Len(values) THEN best
  ELSE IF Exceeds(values[i], values[best]) THEN ArgmaxScan(values, i + 1, i)
  ELSE ArgmaxScan(values, i + 1, best)

\* Series.argmax(): the label of the largest value (rows are labelled by
\* position, here from 1); no values raise ValueError
argmax(values) ==
  IF Len(values) = 0 THEN Raised("ValueError")
  ELSE Returned(ArgmaxScan(values, 2, 1))

\* mag_limit = 5.0
mag_limit == 5

\* lambda x: x > mag_limit
criterion_strict(x) == x > mag_limit * Scale

\* lambda x: x >= mag_limit
criterion(x) == x >= mag_limit * Scale

\* eq[mask]: the rows whose entry of the boolean column is True, in order
RECURSIVE BooleanIndex(_, _)
BooleanIndex(frame, mask) ==
  IF frame = <<>> THEN <<>>
  ELSE (IF Head(mask) THEN <<Head(frame)>> ELSE <<>>)
       \o BooleanIndex(Tail(frame), Tail(mask))

\* eq[eq['mag'].map(lambda x: x >= mag_limit)]
Selected(frame) ==
  BooleanIndex(frame, [i \in 1..Len(frame) |-> criterion(frame[i].mag)])

---------------------------------------------------------------------------
(* map_quakes *)

\* heatcolors[0], heatcolors[1], heatcolors[2] of the source are 1, 2, 3 here
heatcolors == <<"#FFFF00", "#FF9900", "#CC3333">>

\* depths[i:j], positions counted from 0 as in the source
Slice(list, i, j) ==
  [k \in 1..(IF j <= Len(list) THEN j - i ELSE Len(list) - i) |-> list[i + k]]

\* list < number in Python 2: objects of different types are ordered by
\* type and a number comes before any other object, so never
py2_list_lt_number(list, n) == FALSE

\* number <= list in Python 2: always
py2_number_le_list(n, list) == TRUE

\* the if/elif/else of lines 91-99, for the quake at position i (from 0)
HeatColor(depths, i) ==
  IF py2_list_lt_number(Slice(depths, i, i + 1), 70 * Scale)
  THEN heatcolors[1]
  ELSE IF /\ py2_number_le_list(70 * Scale, Slice(depths, i, i + 1))
          /\ py2_list_lt_number(Slice(depths, i, i + 1), 300 * Scale)
  THEN heatcolors[2]
  ELSE heatcolors[3]

\* np.pi, to more digits than a float of the model holds
PiNum == 355

PiDen == 113

\* mags[i]**2
Square(mag) == fl_mul(mag, mag)

\* the marker of a quake of magnitude mag_limit, whatever the magnitude
MarkerSizeOfLimit(mag) ==
  fl_div(fl_mul(RoundRat(PiNum * Scale, PiDen), Square(mag_limit * Scale)), 2)

\* (np.pi * mags[i]**2)/2
MarkerSize(mag) ==
  fl_div(fl_mul(RoundRat(PiNum * Scale, PiDen), Square(mag)), 2)

\* the m.plot calls of the loop, in order
map_quakes(frame) ==
  LET depths == Column(frame, "depth")
      mags   == Column(frame, "mag")
  IN  [k \in 1..Len(frame) |->
         [row        |-> frame[k],
          heatcolor  |-> HeatColor(depths, k - 1),
          markersize |-> MarkerSize(mags[k])]]

\* plt.scatter(depths, mags)
plot_mag_vs_depth(frame) ==
  [depths |-> Column(frame, "depth"), mags |-> Column(frame, "mag")]

---------------------------------------------------------------------------
(* plot_quake_counts *)

\* the for loop of lines 128-130 over the rows' time strings
RECURSIVE CountOn(_, _)
CountOn(times, this_date) ==
  IF times = <<>> THEN Returned(0)
  ELSE LET tm   == str2datetime(Head(times))
           rest == CountOn(Tail(times), this_date)
       IN  IF tm.exc # "" THEN tm
           ELSE IF rest.exc # "" THEN rest
           ELSE Returned(rest.val[1]
                         + (IF this_date = tm.val[1].date THEN 1 ELSE 0))

\* the batch whose rows the loop counts: the script's eq
CountedFrame(frame) == eq

\* the dates the loop walks: the script's date_min and date_max
FirstDate(frame) == date_min[1].date

LastDate(frame) == date_max[1].date

\* the while loop of lines 124-137
RECURSIVE CountLoop(_, _, _, _)
CountLoop(frame, this_date, dates, quake_counts) ==
  IF ~DateLE(this_date, LastDate(frame))
  THEN Returned([dates |-> dates, quake_counts |-> quake_counts])
  ELSE LET cnt == CountOn(Column(CountedFrame(frame), "time"), this_date)
       IN  IF cnt.exc # "" THEN cnt
           ELSE CountLoop(frame, NextDay(this_date),
                          Append(dates, this_date),
                          Append(quake_counts, cnt.val[1]))

\* the lists handed to plt.hlines
plot_quake_counts(frame) == CountLoop(frame, FirstDate(frame), <<>>, <<>>)

---------------------------------------------------------------------------
(* The rows a CSV file may hold *)

\* Time strings: three days around the end of February 2014 with a day
\* between the last two on which nothing falls, a day that does not exist,
\* and a string that lacks its final Z.
GoodTimes ==
  { TimeString(2014, 2, 27, 23, "Z"),
    TimeString(2014, 2, 28, 1, "Z"),
    TimeString(2014, 3, 2, 0, "Z") }

BadTimes ==
  { TimeString(2014, 2, 29, 0, "Z"),
    TimeString(2014, 2, 28, 1, "") }

\* Depths in quanta: 69, 70 and 300 km, and 86.25 km, which like 0.1 in
\* float64 fills the significand
Depths == { 69 * Scale, 70 * Scale, 300 * Scale, 345 * 2^(Precision - 9) * (Scale \div 8) }

\* Magnitudes in quanta: -1.0, 0.5, 5.0, 6.5
Mags == { -Scale, Scale \div 2, 5 * Scale, 13 * (Scale \div 2) }

Row(t, d, m) == [time |-> t, depth |-> d, mag |-> m]

\* Each row differs from the row (27 February, 70 km, 6.5) in its time and
\* magnitude, or in its depth, or in its magnitude.
Rows ==
  { Row(t, 70 * Scale, m) :
      t \in GoodTimes \cup BadTimes, m \in {Scale \div 2, 13 * (Scale \div 2)} }
  \cup
  { Row(TimeString(2014, 2, 27, 23, "Z"), d, 13 * (Scale \div 2)) : d \in Depths }
  \cup
  { Row(TimeString(2014, 2, 27, 23, "Z"), 70 * Scale, m) : m \in Mags }

Batches == UNION { [1..n -> Rows] : n \in 0..MaxLen }

---------------------------------------------------------------------------
(* The script *)

\* line 194: eq is the frame read from the file
Init ==
  /\ eq \in Batches
  /\ pc = "describe"
  /\ date_min = <<>>
  /\ date_max = <<>>
  /\ stats_depth = <<>>
  /\ stats_mag = <<>>
  /\ greatest = <<>>
  /\ quakes = <<>>
  /\ hlines = <<>>
  /\ scatter = <<>>
  /\ markers = <<>>
  /\ error = ""

\* an uncaught exception ends the script
Abort(e) ==
  /\ pc' = "error"
  /\ error' = e

\* lines 197-198: every time string is parsed, then np.min and np.max,
\* which raise ValueError on an empty list
DescribeDates ==
  /\ pc = "describe"
  /\ LET parsed == ParseAll(Column(eq, "time"))
     IN  IF parsed.exc # ""
         THEN Abort(parsed.exc) /\ UNCHANGED <<date_min, date_max>>
         ELSE IF parsed.val[1] = <<>>
         THEN Abort("ValueError") /\ UNCHANGED <<date_min, date_max>>
         ELSE /\ date_min' = <<MinDatetime(parsed.val[1])>>
              /\ date_max' = <<MaxDatetime(parsed.val[1])>>
              /\ pc' = "stats"
              /\ error' = error
  /\ UNCHANGED <<eq, stats_depth, stats_mag, greatest, quakes, hlines,
                 scatter, markers>>

\* quake_feature_stats(frame, 'depth') and quake_feature_stats(frame, 'mag')
CallFeatureStats(frame, next) ==
  /\ quakes' = <<frame>>
  /\ stats_depth' = <<quake_feature_stats(frame, "depth")>>
  /\ stats_mag' = <<quake_feature_stats(frame, "mag")>>
  /\ pc' = next
  /\ UNCHANGED <<eq, date_min, date_max, greatest, hlines, scatter,
                 markers, error>>

\* lines 203-216
FeatureStats ==
  /\ pc = "stats"
  /\ CallFeatureStats(eq, "greatest")

\* frame.loc[frame['mag'].argmax()]
CallGreatest(frame, next) ==
  /\ quakes' = <<frame>>
  /\ LET label == argmax(Column(frame, "mag"))
     IN  IF label.exc # ""
         THEN Abort(label.exc) /\ greatest' = greatest
         ELSE /\ greatest' = <<[label |-> label.val[1],
                                row   |-> frame[label.val[1]]]>>
              /\ pc' = next
              /\ error' = error
  /\ UNCHANGED <<eq, date_min, date_max, stats_depth, stats_mag, hlines,
                 scatter, markers>>

\* line 220
GreatestQuake ==
  /\ pc = "greatest"
  /\ CallGreatest(eq, "counts")

\* plot_quake_counts(frame) called: the lists are plotted unless it raises
CallPlotQuakeCounts(frame, next) ==
  /\ quakes' = <<frame>>
  /\ LET lists == plot_quake_counts(frame)
     IN  IF lists.exc # ""
         THEN Abort(lists.exc) /\ hlines' = hlines
         ELSE /\ hlines' = lists.val
              /\ pc' = next
              /\ error' = error
  /\ UNCHANGED <<eq, date_min, date_max, stats_depth, stats_mag, greatest,
                 scatter, markers>>

\* line 236
PlotQuakeCounts ==
  /\ pc = "counts"
  /\ CallPlotQuakeCounts(eq, "scatter")

\* line 248
PlotMagVsDepth ==
  /\ pc = "scatter"
  /\ quakes' = <<eq>>
  /\ scatter' = <<plot_mag_vs_depth(eq)>>
  /\ pc' = "map"
  /\ UNCHANGED <<eq, date_min, date_max, stats_depth, stats_mag, greatest,
                 hlines, markers, error>>

\* map_quakes(frame) called
CallMapQuakes(frame, next) ==
  /\ quakes' = <<frame>>
  /\ markers' = <<map_quakes(frame)>>
  /\ pc' = next
  /\ UNCHANGED <<eq, date_min, date_max, stats_depth, stats_mag, greatest,
                 hlines, scatter, error>>

\* lines 256-260
MapQuakes ==
  /\ pc = "map"
  /\ CallMapQuakes(Selected(eq), "done")

Next ==
  \/ DescribeDates
  \/ FeatureStats
  \/ GreatestQuake
  \/ PlotQuakeCounts
  \/ PlotMagVsDepth
  \/ MapQuakes

Spec == Init /\ [][Next]_vars

---------------------------------------------------------------------------
(* The functions as operations: once the script has set date_min and       *)
(* date_max, each function applied to either batch the script builds, the  *)
(* frame eq or the selection eq[criterion], in any order.                  *)

Arguments == {eq, Selected(eq)}

StatsOf ==
  /\ pc = "stats"
  /\ \E frame \in Arguments : CallFeatureStats(frame, "called")

GreatestOf ==
  /\ pc = "stats"
  /\ \E frame \in Arguments : CallGreatest(frame, "called")

CountsOf ==
  /\ pc = "stats"
  /\ \E frame \in Arguments : CallPlotQuakeCounts(frame, "called")

MapOf ==
  /\ pc = "stats"
  /\ \E frame \in Arguments : CallMapQuakes(frame, "called")

NextCalls ==
  \/ DescribeDates
  \/ StatsOf
  \/ GreatestOf
  \/ CountsOf
  \/ MapOf

SpecCalls == Init /\ [][NextCalls]_vars

---------------------------------------------------------------------------
(* What the claims speak of *)

\* the calendar day written in a row's time string
DayOf(row) == row.time.ymd

\* the ordinals of the days on which the rows of a batch fall
Ordinals(batch) == { toordinal(DayOf(batch[i])) : i \in DOMAIN batch }

Least(S) == CHOOSE x \in S : \A y \in S : x <= y

Greatest(S) == CHOOSE x \in S : \A y \in S : y <= x

RECURSIVE SumSeq(_)
SumSeq(list) == IF list = <<>> THEN 0 ELSE Head(list) + SumSeq(Tail(list))

\* the rows of a batch that fall on a day
RowsOn(batch, day) == { i \in DOMAIN batch : DayOf(batch[i]) = day }

\* the tier colour the depth thresholds give
TierColor(depth) ==
  IF depth < 70 * Scale THEN "#FFFF00"
  ELSE IF depth < 300 * Scale THEN "#FF9900"
  ELSE "#CC3333"

\* the largest magnitude of a value in a list
MaxAbs(values) == Greatest({ Abs(values[i]) : i \in DOMAIN values })

\* the error the rounding of its operations may leave in a standard
\* deviation of n values, in quanta
StdTolerance(values) ==
  (((3 * Len(values) + 7) * MaxAbs(values)) \div 2^Precision) + 2

---------------------------------------------------------------------------
(* C1 *)

\* C1: once the script has plotted the daily counts of its batch, the lists
\* have one entry for every day from the earliest to the latest day of the
\* batch ((dateMax - dateMin).days + 1 of them), the counts add up to the
\* number of rows, and every row falls on exactly one listed day.
C1_CountsCoverRange ==
  hlines # <<>> =>
    LET dates  == hlines[1].dates
        counts == hlines[1].quake_counts
    IN  /\ Len(dates) = Greatest(Ordinals(eq)) - Least(Ordinals(eq)) + 1
        /\ Len(counts) = Len(dates)
        /\ SumSeq(counts) = Len(eq)
        /\ \A i \in DOMAIN eq :
             Cardinality({ k \in DOMAIN dates : dates[k] = DayOf(eq[i]) }) = 1

\* a batch of several rows whose days span four days has been counted
C1_Witness ==
  /\ hlines # <<>>
  /\ Len(eq) >= 2
  /\ Len(hlines[1].dates) = 4

---------------------------------------------------------------------------
(* C2 *)

\* C2: the plotted series starts on the earliest day of the batch, ends on
\* its latest day, each date is the calendar day after the one before it,
\* and every day carries the number of rows falling on it, 0 included.
C2_ContiguousAscending ==
  hlines # <<>> =>
    LET dates  == hlines[1].dates
        counts == hlines[1].quake_counts
    IN  /\ toordinal(dates[1]) = Least(Ordinals(eq))
        /\ toordinal(dates[Len(dates)]) = Greatest(Ordinals(eq))
        /\ \A k \in DOMAIN dates : ValidDate(dates[k])
        /\ \A k \in 1..(Len(dates) - 1) :
             toordinal(dates[k + 1]) = toordinal(dates[k]) + 1
        /\ \A k \in DOMAIN dates :
             counts[k] = Cardinality(RowsOn(eq, dates[k]))

\* a series across the end of February with a day of count 0 in it
C2_Witness ==
  /\ hlines # <<>>
  /\ \E k \in DOMAIN hlines[1].dates :
       /\ hlines[1].quake_counts[k] = 0
       /\ hlines[1].dates[k] = <<2014, 3, 1>>

---------------------------------------------------------------------------
(* C3 *)

\* C3: every quake map_quakes plots has the colour of its depth tier:
\* heatcolors[0] below 70 km, heatcolors[1] from 70 km to below 300 km,
\* heatcolors[2] from 300 km.
C3_DepthTiers ==
  markers # <<>> =>
    \A k \in DOMAIN markers[1] :
      markers[1][k].heatcolor = TierColor(markers[1][k].row.depth)

---------------------------------------------------------------------------
(* C4 *)

\* the rows of eq that the selection is to keep
Kept == { i \in DOMAIN eq : eq[i].mag >= mag_limit * Scale }

\* the j-th kept row of eq
KeptRow(j) == CHOOSE i \in Kept : Cardinality({ k \in Kept : k <= i }) = j

\* C4: the batch handed to map_quakes holds exactly the rows of magnitude
\* >= mag_limit (a row of magnitude mag_limit is kept), in the order they
\* have in eq, and no step changes eq.
C4_MagnitudeFilter ==
  /\ [](pc = "done" =>
          /\ Len(quakes[1]) = Cardinality(Kept)
          /\ \A j \in DOMAIN quakes[1] : quakes[1][j] = eq[KeptRow(j)])
  /\ [][eq' = eq]_vars

\* a selection that keeps a row of magnitude exactly mag_limit and one
\* more, and drops a row between or around them
C4_Witness ==
  /\ pc = "done"
  /\ Len(quakes[1]) = 2
  /\ Len(eq) = 3
  /\ quakes[1][1] # quakes[1][2]
  /\ \E j \in DOMAIN quakes[1] : quakes[1][j].mag = mag_limit * Scale

---------------------------------------------------------------------------
(* C5 *)

\* C5: the row reported as the quake of greatest magnitude has the largest
\* magnitude of the batch and is the first row that has it.
C5_GreatestIsFirstMax ==
  greatest # <<>> =>
    LET g == greatest[1]
    IN  /\ g.label \in DOMAIN eq
        /\ g.row = eq[g.label]
        /\ \A i \in DOMAIN eq : eq[i].mag <= g.row.mag
        /\ \A i \in 1..(g.label - 1) : eq[i].mag < g.row.mag

\* two different rows share the largest magnitude
C5_Witness ==
  /\ greatest # <<>>
  /\ \E i \in DOMAIN eq :
       /\ i # greatest[1].label
       /\ eq[i].mag = greatest[1].row.mag
       /\ eq[i] # greatest[1].row

---------------------------------------------------------------------------
(* C6 *)

\* C6: called on a batch of no rows, the statistics, the daily counts and
\* the query for the greatest quake each end in an error and none of them
\* leaves a result.
C6_EmptyBatchFails ==
  (pc = "called" \/ pc = "error") /\ quakes = << <<>> >> =>
    /\ error # ""
    /\ stats_depth = <<>>
    /\ stats_mag = <<>>
    /\ hlines = <<>>
    /\ greatest = <<>>

---------------------------------------------------------------------------
(* C7 *)

\* C7: a batch with a time string that does not parse is rejected whole,
\* with an error and no series; and a series that is plotted counts every
\* row of the batch.
C7_MalformedTimeRejects ==
  /\ (\E i \in DOMAIN eq : eq[i].time \in BadTimes) =>
       /\ hlines = <<>>
       /\ pc \in {"describe", "error"}
       /\ pc = "error" => error = "ValueError"
  /\ hlines # <<>> =>
       /\ \A i \in DOMAIN eq : eq[i].time \in GoodTimes
       /\ SumSeq(hlines[1].quake_counts) = Len(eq)

\* a batch of good rows and a malformed one has been rejected
C7_Witness ==
  /\ pc = "error"
  /\ hlines = <<>>
  /\ \E i \in DOMAIN eq : eq[i].time \in BadTimes
  /\ \E i \in DOMAIN eq : eq[i].time \in GoodTimes

---------------------------------------------------------------------------
(* C8 *)

\* min <= mean <= max and std >= 0 of one summary
InRange(summary) ==
  /\ summary.min <= summary.mean
  /\ summary.mean <= summary.max
  /\ summary.std >= 0

\* C8 (as first stated): for each of depth and mag the summary has
\* min <= mean <= max and std >= 0
C8_MeanWithinMinMax ==
  stats_depth # <<>> => InRange(stats_depth[1]) /\ InRange(stats_mag[1])

\* What holds of a summary of the values of a column:
\*   min and max are the smallest and the largest value;
\*   std >= 0;
\*   min <= mean <= max when the floating-point sum of the values is exact,
\*     and in any case mean is the exact sum over N to within the rounding
\*     of N operations;
\*   std is the population form (divisor N): it is 0 for one value, half
\*     the range for two, and never more than half the range (which the
\*     divisor N - 1 exceeds), each to within rounding.
SummaryHolds(summary, values) ==
  LET n == Len(values)
      S == SumSeq(values)
      T == StdTolerance(values)
  IN  /\ \E i \in DOMAIN values : summary.min = values[i]
      /\ \E i \in DOMAIN values : summary.max = values[i]
      /\ \A i \in DOMAIN values :
           summary.min <= values[i] /\ values[i] <= summary.max
      /\ summary.std >= 0
      /\ fl_sum(values, 0) = S =>
           summary.min <= summary.mean /\ summary.mean <= summary.max
      /\ 2 * 2^Precision * Abs(n * summary.mean - S)
           <= 2 * n * (n + 1) * MaxAbs(values) + n * 2^Precision
      /\ 2 * summary.std <= (summary.max - summary.min) + 2 * T
      /\ n = 1 => summary.std = 0
      /\ n = 2 => 2 * summary.std >= (summary.max - summary.min) - 2 * T

\* C8 (as amended): for each of depth and mag the summary of a non-empty
\* batch has min and max the extreme values, std >= 0 in the population
\* form, and a mean that is the sum over N up to floating-point rounding:
\* min <= mean <= max holds when the sum is exact, not always.
C8_SummaryUpToRounding ==
  stats_depth # <<>> =>
    /\ SummaryHolds(stats_depth[1], Column(eq, "depth"))
    /\ SummaryHolds(stats_mag[1], Column(eq, "mag"))

\* the statistics of a batch of three rows of different depths and
\* magnitudes, whose depths do not add up exactly
C8_Witness ==
  /\ stats_depth # <<>>
  /\ Len(eq) = 3
  /\ stats_depth[1].min < stats_depth[1].max
  /\ stats_mag[1].std > 0
  /\ fl_sum(Column(eq, "depth"), 0) # SumSeq(Column(eq, "depth"))

---------------------------------------------------------------------------
(* C9 *)

\* C9 (as first stated): of any two quakes plotted, the one of
\* smaller magnitude has the smaller marker
C9_MarkerMonotone ==
  markers # <<>> =>
    \A i, j \in DOMAIN markers[1] :
      markers[1][i].row.mag < markers[1][j].row.mag
        => markers[1][i].markersize < markers[1][j].markersize

\* C9 (as amended): of any two quakes plotted whose magnitudes are not
\* negative, the one of smaller magnitude has the smaller marker.
C9_MarkerMonotoneNonNegative ==
  markers # <<>> =>
    \A i, j \in DOMAIN markers[1] :
      /\ 0 <= markers[1][i].row.mag
      /\ markers[1][i].row.mag < markers[1][j].row.mag
      => markers[1][i].markersize < markers[1][j].markersize

\* quakes of magnitudes 0.5 and 6.5 have been plotted together
C9_Witness ==
  /\ markers # <<>>
  /\ \E i, j \in DOMAIN markers[1] :
       /\ markers[1][i].row.mag = Scale \div 2
       /\ markers[1][j].row.mag = 13 * (Scale \div 2)

---------------------------------------------------------------------------
(* C10 *)

\* C10: the series plot_quake_counts plots is that of the batch it was
\* passed: it runs from the earliest to the latest day of that batch and
\* each day carries the number of that batch's rows falling on it.
C10_CountsOfArgument ==
  hlines # <<>> /\ quakes[1] # <<>> =>
    LET dates  == hlines[1].dates
        counts == hlines[1].quake_counts
    IN  /\ toordinal(dates[1]) = Least(Ordinals(quakes[1]))
        /\ toordinal(dates[Len(dates)]) = Greatest(Ordinals(quakes[1]))
        /\ \A k \in DOMAIN dates :
             counts[k] = Cardinality(RowsOn(quakes[1], dates[k]))

====
